---- MODULE Spec2Model ----
(***************************************************************************)
(* Classical quantum-dot simulator (qtt/simulation/classicaldotsystem.py). *)
(*                                                                         *)
(* Arrays are sequences (1-based); a 2-D array is a sequence of rows.      *)
(* Energies are exact integers: the preset literals are written in units   *)
(* of 1/20 so that 52.8, 0.25 and 0.1 are whole numbers; floating-point    *)
(* rounding is not modelled.                                               *)
(***************************************************************************)
EXTENDS Integers, Sequences, FiniteSets, TLC

VARIABLES
    phase,           \* "none" | "constructed" | "ready" | "ctor_error"
    ndots, ngates, maxelectrons,
    mu0, Eadd, W, alpha,
    basis, nbasis, Nt, add_basis, coulomb_energy,
    hcgs, honeycomb, deloc,
    written,         \* cells of hcgs assigned since hcgs was allocated
    sweep,           \* the running activation of simulate_honeycomb
    ret              \* the last call made and its outcome

model == <<basis, nbasis, Nt, add_basis, coulomb_energy, mu0, Eadd, W, alpha>>
dims == <<ndots, ngates, maxelectrons>>
results == <<hcgs, honeycomb, deloc, written>>
vars == <<phase, dims, model, results, sweep, ret>>

\* ---------------------------------------------------------------- bounds
MaxDots == 3
MaxGates == 2
MaxElectrons == 2
MaxPoints == 2
MaxCells == 4
MaxArg == 10

\* ------------------------------------------------------- values and helpers
None == <<>>
NoAttr == [kind |-> "unset"]
Idle == [kind |-> "idle"]
Ok(v) == [kind |-> "ok", val |-> v]
Raised(e) == [kind |-> "error", exc |-> e]

Min(a, b) == IF a <= b THEN a ELSE b
Max(a, b) == IF a >= b THEN a ELSE b

\* range(start, stop, -1)
RangeDown(start, stop) == [k \in 1..Max(0, start - stop) |-> start - k + 1]
\* range(start, stop)
RangeUp(start, stop) == [k \in 1..Max(0, stop - start) |-> start + k - 1]

RECURSIVE FoldMul(_)
FoldMul(s) == IF Len(s) = 1 THEN s[1] ELSE FoldMul(SubSeq(s, 1, Len(s) - 1)) * s[Len(s)]

\* functools.reduce(op.mul, s) without initial value
ReduceMul(s) == IF s = <<>> THEN Raised("TypeError") ELSE Ok(FoldMul(s))

ncr(n, r) ==
    LET r1 == Min(r, n - r) IN
    IF r1 = 0 THEN Ok(1)
    ELSE LET numer == ReduceMul(RangeDown(n, n - r1)) IN
         IF numer.kind = "error" THEN numer
         ELSE LET denom == ReduceMul(RangeUp(1, r1 + 1)) IN
              IF denom.kind = "error" THEN denom
              ELSE Ok(numer.val \div denom.val)

RECURSIVE SeqSum(_)
SeqSum(s) == IF s = <<>> THEN 0 ELSE s[1] + SeqSum(Tail(s))

Zeros(n) == [k \in 1..n |-> 0]
Zeros2(r, c) == [k \in 1..r |-> Zeros(c)]

\* ------------------------------------------------------------- makebasis
\* itertools.product(vals, repeat=k): the last position varies fastest
RECURSIVE Product(_, _)
Product(vals, k) ==
    IF k = 0 THEN << <<>> >>
    ELSE LET prev == Product(vals, k - 1)
             m == Len(vals)
         IN [i \in 1..(Len(prev) * m) |->
                Append(prev[((i - 1) \div m) + 1], vals[((i - 1) % m) + 1])]

\* WithKey for a sort that is not stable: equal keys come out reversed
WithKeyReversed(s, k) ==
    LET t == SelectSeq(s, LAMBDA e : SeqSum(e) = k)
    IN [i \in 1..Len(t) |-> t[Len(t) + 1 - i]]

\* the elements of s whose key is k, in their order in s
WithKey(s, k) == SelectSeq(s, LAMBDA e : SeqSum(e) = k)

\* sorted(s, key=sum): a stable sort, so the result lists, for the keys in
\* ascending order, the elements with that key in their order in s
RECURSIVE SortedFrom(_, _)
SortedFrom(s, keys) ==
    IF keys = {} THEN <<>>
    ELSE LET k == CHOOSE x \in keys : \A y \in keys : x <= y
         IN WithKey(s, k) \o SortedFrom(s, keys \ {k})

sorted(s) == SortedFrom(s, {SeqSum(s[i]) : i \in 1..Len(s)})

\* Combinations2 with the partners of an element taken from the right
RECURSIVE Combinations2Rev(_)
Combinations2Rev(t) ==
    IF Len(t) < 2 THEN <<>>
    ELSE [k \in 1..(Len(t) - 1) |-> <<t[1], t[Len(t) + 1 - k]>>]
         \o Combinations2Rev(Tail(t))

\* itertools.combinations(t, 2)
RECURSIVE Combinations2(_)
Combinations2(t) ==
    IF Len(t) < 2 THEN <<>>
    ELSE [k \in 1..(Len(t) - 1) |-> <<t[1], t[k + 1]>>] \o Combinations2(Tail(t))

\* the integer an int-typed array keeps of the float num/2 (truncation)
IntOfHalf(num) == IF num >= 0 THEN num \div 2 ELSE -((-num) \div 2)

\* AddBasisRow with 1 / 2 evaluated as an integer division
AddBasisRowIntDiv(b) == [d \in 1..Len(b) |-> (1 \div 2) * (b[d] * (b[d] + 1))]

\* 1 / 2 * np.multiply(b, b + 1) stored into a row of the int array add_basis
AddBasisRow(b) == [d \in 1..Len(b) |-> IntOfHalf(b[d] * (b[d] + 1))]

\* [np.dot(*v) for v in itertools.combinations(b, 2)]
CoulombRow(b) ==
    LET c == Combinations2(b) IN [k \in 1..Len(c) |-> c[k][1] * c[k][2]]

\* row[:] = vals, for a row of length n (numpy broadcasting of a 1-D value)
AssignRow(n, vals) ==
    IF Len(vals) = n THEN Ok(vals)
    ELSE IF Len(vals) = 1 THEN Ok([k \in 1..n |-> vals[1]])
    ELSE Raised("ValueError")

makebasis(nd, me, wsize) ==
    LET b == sorted(Product(RangeUp(0, me + 1), nd))
        rows == [i \in 1..Len(b) |-> AssignRow(wsize, CoulombRow(b[i]))]
    IN IF \E i \in 1..Len(b) : rows[i].kind = "error"
       THEN Raised("ValueError")
       ELSE Ok([basis |-> b,
                nbasis |-> [i \in 1..Len(b) |-> SeqSum(b[i])],
                Nt |-> Len(b),
                add_basis |-> [i \in 1..Len(b) |-> AddBasisRow(b[i])],
                coulomb_energy |-> [i \in 1..Len(b) |-> rows[i].val]])

\* ------------------------------------------------------ numpy on 1-D / 2-D
\* u + v for 1-D arrays (a length-1 operand is broadcast)
BroadcastAdd(u, v) ==
    IF Len(u) = Len(v) THEN Ok([k \in 1..Len(u) |-> u[k] + v[k]])
    ELSE IF Len(u) = 1 THEN Ok([k \in 1..Len(v) |-> u[1] + v[k]])
    ELSE IF Len(v) = 1 THEN Ok([k \in 1..Len(u) |-> u[k] + v[1]])
    ELSE Raised("ValueError")

RECURSIVE SumProd(_, _)
SumProd(u, v) == IF u = <<>> THEN 0 ELSE u[1] * v[1] + SumProd(Tail(u), Tail(v))

\* np.dot of two 1-D arrays
DotVV(u, v) == IF Len(u) = Len(v) THEN Ok(SumProd(u, v)) ELSE Raised("ValueError")

\* np.dot of a 2-D array and a 1-D array
DotMV(m, v) ==
    IF Len(m[1]) = Len(v) THEN Ok([r \in 1..Len(m) |-> SumProd(m[r], v)])
    ELSE Raised("ValueError")

\* ------------------------------------------------------ energy evaluation
\* the attributes of the object that the energy evaluation reads
Self ==
    [Nt |-> Nt, basis |-> basis, add_basis |-> add_basis,
     coulomb_energy |-> coulomb_energy,
     mu0 |-> mu0, Eadd |-> Eadd, W |-> W, alpha |-> alpha]

\* the three np.dot terms of one basis state
EnergyOf(s, tmp1, i) ==
    LET t1 == DotVV(tmp1, s.basis[i])
        t2 == DotVV(s.coulomb_energy[i], s.W)
        t3 == DotVV(s.add_basis[i], s.Eadd)
    IN IF t1.kind = "error" THEN t1
       ELSE IF t2.kind = "error" THEN t2
       ELSE IF t3.kind = "error" THEN t3
       ELSE Ok(0 + t1.val + t2.val + t3.val)

calculate_energies(s, gatevalues) ==
    LET av == DotMV(s.alpha, gatevalues) IN
    IF av.kind = "error" THEN av
    ELSE LET sm == BroadcastAdd(s.mu0, av.val) IN
         IF sm.kind = "error" THEN sm
         ELSE LET tmp1 == [k \in 1..Len(sm.val) |-> -(sm.val[k])]
                  en == [i \in 1..s.Nt |-> EnergyOf(s, tmp1, i)]
              IN IF \E i \in 1..s.Nt : en[i].kind = "error"
                 THEN Raised("ValueError")
                 ELSE Ok([i \in 1..s.Nt |-> en[i].val])

\* ArgminIn that lets an equal element to the right replace the best one
RECURSIVE ArgminInLast(_, _, _)
ArgminInLast(e, lo, hi) ==
    IF lo = hi THEN lo
    ELSE LET mid == (lo + hi) \div 2
             l == ArgminInLast(e, lo, mid)
             r == ArgminInLast(e, mid + 1, hi)
         IN IF e[r] <= e[l] THEN r ELSE l

\* np.argmin keeps the first of the smallest elements: an element replaces
\* the best one found to its left only when it is strictly smaller.  The scan
\* is evaluated by halving the index range lo..hi.
RECURSIVE ArgminIn(_, _, _)
ArgminIn(e, lo, hi) ==
    IF lo = hi THEN lo
    ELSE LET mid == (lo + hi) \div 2
             l == ArgminIn(e, lo, mid)
             r == ArgminIn(e, mid + 1, hi)
         IN IF e[r] < e[l] THEN r ELSE l

argmin(e) == ArgminIn(e, 1, Len(e))

calculate_ground_state(s, gatevalues) ==
    LET energies == calculate_energies(s, gatevalues) IN
    IF energies.kind = "error" THEN energies
    ELSE Ok(s.basis[argmin(energies.val)])

\* ------------------------------------------------------------- inputs
NumPairs(nd) == (nd * (nd - 1)) \div 2

\* literal values of the presets, in units of 1/20
TripleDotValues ==
    [mu0 |-> <<-540, -400, -500>>,
     Eadd |-> <<1080, 1056, 1080>>,
     W |-> <<120, 20, 100>>,
     alpha |-> << <<20, 5, 2>>, <<5, 20, 5>>, <<2, 5, 20>> >>]

DoubleDotValues ==
    [mu0 |-> <<2400, 2000>>,
     Eadd |-> <<1080, 1056>>,
     W |-> <<120>>,
     alpha |-> << <<20, 5>>, <<5, 20>> >>]

\* a well-shaped parameter set for arbitrary dimensions
GenValues(nd, ng) ==
    [mu0 |-> [d \in 1..nd |-> 10 * d],
     Eadd |-> [d \in 1..nd |-> 30 + d],
     W |-> [k \in 1..NumPairs(nd) |-> 2 + k],
     alpha |-> [d \in 1..nd |-> [g \in 1..ng |-> IF d = g THEN 4 ELSE 1]]]

\* the same values in other shapes
VecVariants(v) == {<<v[1]>>, Append(v, v[1])} \ {v}
MatVariants(m) ==
    {<<m[1]>>, [r \in 1..Len(m) |-> Append(m[r], m[r][1])], Append(m, m[1])} \ {m}

ParamInputs(good) ==
    {good}
    \cup {[good EXCEPT !.mu0 = x] : x \in VecVariants(good.mu0)}
    \cup {[good EXCEPT !.Eadd = x] : x \in VecVariants(good.Eadd)}
    \cup {[good EXCEPT !.W = x] : x \in VecVariants(good.W)}
    \cup {[good EXCEPT !.alpha = x] : x \in MatVariants(good.alpha)}

AssignInputs(nd, ng) ==
    ParamInputs(GenValues(nd, ng))
    \cup (IF nd = 3 /\ ng = 3 THEN ParamInputs(TripleDotValues) ELSE {})
    \cup (IF nd = 2 /\ ng = 2 THEN ParamInputs(DoubleDotValues) ELSE {})

\* gate voltage of the k-th point of a sweep axis
Axis(k) == 100 * (k - 1)
GateVolts == {Axis(1), Axis(2)}

GateInputs(ng) ==
    LET good == [1..ng -> GateVolts]
    IN good \cup UNION {VecVariants(v) : v \in good}

\* --------------------------------------------------------- construction
\* ClassicalDotSystem.__init__: the attributes of the new object, or the
\* exception ncr raises while W is sized
ClassicalDotSystem(nd, ng, me) ==
    LET nW == ncr(nd, 2) IN
    IF nW.kind = "error" THEN nW
    ELSE Ok([ndots |-> nd, ngates |-> ng, maxelectrons |-> me,
             basis |-> None, nbasis |-> None, Nt |-> None,
             add_basis |-> None, coulomb_energy |-> None,
             mu0 |-> Zeros(nd), Eadd |-> Zeros(nd),
             W |-> Zeros(nW.val), alpha |-> Zeros2(nd, ng)])

\* self.makebasis() on the object o
WithBasis(o) ==
    LET mb == makebasis(o.ndots, o.maxelectrons, Len(o.W)) IN
    IF mb.kind = "error" THEN mb
    ELSE Ok([o EXCEPT !.basis = mb.val.basis, !.nbasis = mb.val.nbasis,
                      !.Nt = mb.val.Nt, !.add_basis = mb.val.add_basis,
                      !.coulomb_energy = mb.val.coulomb_energy])

\* for name in self.varnames: setattr(self, name, vardict[name + '_values'])
WithValues(o, vardict) ==
    [o EXCEPT !.mu0 = vardict.mu0, !.Eadd = vardict.Eadd,
              !.W = vardict.W, !.alpha = vardict.alpha]

\* a preset constructor: __init__ of the base, makebasis, then the literals
Preset(nd, ng, me, vardict) ==
    LET o == ClassicalDotSystem(nd, ng, me) IN
    IF o.kind = "error" THEN o
    ELSE LET ob == WithBasis(o.val) IN
         IF ob.kind = "error" THEN ob
         ELSE Ok(WithValues(ob.val, vardict))

TripleDot(me) == Preset(3, 3, me, TripleDotValues)
DoubleDot(me) == Preset(2, 2, me, DoubleDotValues)

NoObject ==
    [ndots |-> 0, ngates |-> 0, maxelectrons |-> 0,
     basis |-> None, nbasis |-> None, Nt |-> None,
     add_basis |-> None, coulomb_energy |-> None,
     mu0 |-> None, Eadd |-> None, W |-> None, alpha |-> None]

\* the object o is the one the variables describe
IsObject(o) ==
    /\ ndots = o.ndots /\ ngates = o.ngates /\ maxelectrons = o.maxelectrons
    /\ basis = o.basis /\ nbasis = o.nbasis /\ Nt = o.Nt
    /\ add_basis = o.add_basis /\ coulomb_energy = o.coulomb_energy
    /\ mu0 = o.mu0 /\ Eadd = o.Eadd /\ W = o.W /\ alpha = o.alpha

\* the variables become those of the object o
SetObject(o) ==
    /\ ndots' = o.ndots /\ ngates' = o.ngates /\ maxelectrons' = o.maxelectrons
    /\ basis' = o.basis /\ nbasis' = o.nbasis /\ Nt' = o.Nt
    /\ add_basis' = o.add_basis /\ coulomb_energy' = o.coulomb_energy
    /\ mu0' = o.mu0 /\ Eadd' = o.Eadd /\ W' = o.W /\ alpha' = o.alpha

Object ==
    [ndots |-> ndots, ngates |-> ngates, maxelectrons |-> maxelectrons,
     basis |-> basis, nbasis |-> nbasis, Nt |-> Nt,
     add_basis |-> add_basis, coulomb_energy |-> coulomb_energy,
     mu0 |-> mu0, Eadd |-> Eadd, W |-> W, alpha |-> alpha]

Call(op, arg, out) == [op |-> op, arg |-> arg, out |-> out]

\* ------------------------------------------------------------ operations
Init ==
    /\ phase = "none"
    /\ IsObject(NoObject)
    /\ hcgs = NoAttr /\ honeycomb = NoAttr /\ deloc = NoAttr
    /\ written = {}
    /\ sweep = Idle
    /\ ret = Call("none", None, Ok(None))

\* obj = ClassicalDotSystem(ndots=nd, ngates=ng, maxelectrons=me)
Construct(nd, ng, me) ==
    /\ phase = "none"
    /\ LET o == ClassicalDotSystem(nd, ng, me) IN
       /\ ret' = Call("__init__", <<nd, ng, me>>,
                      IF o.kind = "error" THEN o ELSE Ok(None))
       /\ IF o.kind = "error"
          THEN /\ phase' = "ctor_error"
               /\ UNCHANGED <<dims, model>>
          ELSE /\ phase' = "constructed"
               /\ SetObject(o.val)
    /\ UNCHANGED <<results, sweep>>

\* obj = TripleDot(maxelectrons=me) or DoubleDot(maxelectrons=me)
ConstructPreset(cls, me) ==
    /\ phase = "none"
    /\ LET o == IF cls = "TripleDot" THEN TripleDot(me) ELSE DoubleDot(me) IN
       /\ ret' = Call(cls, me, IF o.kind = "error" THEN o ELSE Ok(None))
       /\ IF o.kind = "error"
          THEN /\ phase' = "ctor_error"
               /\ UNCHANGED <<dims, model>>
          ELSE /\ phase' = "ready"
               /\ SetObject(o.val)
    /\ UNCHANGED <<results, sweep>>

\* obj.makebasis(), once on a fresh object as the presets do
MakeBasis ==
    /\ phase = "constructed"
    /\ LET o == WithBasis(Object) IN
       /\ ret' = Call("makebasis", None, IF o.kind = "error" THEN o ELSE Ok(None))
       /\ IF o.kind = "error"
          THEN UNCHANGED <<phase, dims, model>>
          ELSE /\ phase' = "ready"
               /\ SetObject(o.val)
    /\ UNCHANGED <<results, sweep>>

\* assignment of the four parameters of a model whose basis exists
AssignParams(vardict) ==
    /\ phase = "ready"
    /\ sweep = Idle
    /\ SetObject(WithValues(Object, vardict))
    /\ ret' = Call("setattr", None, Ok(None))
    /\ UNCHANGED <<phase, results, sweep>>

\* CalculateEnergies that accumulates the chemical potentials in self.mu0
CalculateEnergiesInPlace(gatevalues) ==
    /\ phase = "ready"
    /\ sweep = Idle
    /\ LET out == calculate_energies(Self, gatevalues) IN
       /\ ret' = Call("calculate_energies", gatevalues, out)
       /\ mu0' = IF out.kind = "ok"
                 THEN BroadcastAdd(mu0, DotMV(alpha, gatevalues).val).val
                 ELSE mu0
    /\ UNCHANGED <<phase, dims, results, sweep,
                   basis, nbasis, Nt, add_basis, coulomb_energy, Eadd, W, alpha>>

\* obj.calculate_energies(gatevalues)
CalculateEnergies(gatevalues) ==
    /\ phase = "ready"
    /\ sweep = Idle
    /\ ret' = Call("calculate_energies", gatevalues,
                   calculate_energies(Self, gatevalues))
    /\ UNCHANGED <<phase, dims, model, results, sweep>>

\* obj.calculate_ground_state(gatevalues)
CalculateGroundState(gatevalues) ==
    /\ phase = "ready"
    /\ sweep = Idle
    /\ ret' = Call("calculate_ground_state", gatevalues,
                   calculate_ground_state(Self, gatevalues))
    /\ UNCHANGED <<phase, dims, model, results, sweep>>

Next ==
    \/ \E nd \in 0..MaxDots, ng \in 1..MaxGates, me \in 0..MaxElectrons :
          Construct(nd, ng, me)
    \/ \E cls \in {"TripleDot", "DoubleDot"}, me \in 0..MaxElectrons :
          ConstructPreset(cls, me)
    \/ MakeBasis
    \/ phase = "ready" /\ \E vardict \in AssignInputs(ndots, ngates) :
          AssignParams(vardict)
    \/ phase = "ready" /\ \E gatevalues \in GateInputs(ngates) :
          CalculateEnergies(gatevalues)
    \/ phase = "ready" /\ \E gatevalues \in GateInputs(ngates) :
          CalculateGroundState(gatevalues)

Spec == Init /\ [][Next]_vars

\* ---------------------------------------------------- simulate_honeycomb
\* a voltage grid paramvalues2D[g][x][y]: gate 1 follows x, gate 2 follows y,
\* further gates are held at 0
Grid(np, npx, npy) ==
    [g \in 1..np |-> [x \in 1..npx |-> [y \in 1..npy |->
        IF g = 1 THEN Axis(x) ELSE IF g = 2 THEN Axis(y) ELSE 0]]]

GridShapes == {sh \in (1..MaxPoints) \X (1..MaxPoints) : sh[1] * sh[2] <= MaxCells}

GridInputs(ng) ==
    {Grid(ng, sh[1], sh[2]) : sh \in GridShapes}
    \cup {Grid(np, sh[1], sh[2]) :
             np \in {ng + 1, ng - 1} \ {0},
             sh \in {t \in GridShapes : t[1] = t[2]}}

\* a task of pool.map without result yet
Pending == [kind |-> "pending"]

\* what np.empty may leave in a cell entry
Uninit == {-1, 0}

\* np.empty((npx, npy, nd)) holding junk
Empty(npx, npy, nd, junk) ==
    [x \in 1..npx |-> [y \in 1..npy |-> [d \in 1..nd |-> junk]]]

\* paramvalues2D[:, i, j]
Column(grid, i, j) == [g \in 1..Len(grid) |-> grid[g][i][j]]

\* [paramvalues2D[:, i, j] for i in range(npointsx) for j in range(npointsy)]
ParamIter(grid) ==
    LET npx == Len(grid[1])
        npy == Len(grid[1][1])
    IN [k \in 1..(npx * npy) |->
           Column(grid, ((k - 1) \div npy) + 1, ((k - 1) % npy) + 1)]

\* Reshape in column-major order
ReshapeF(result, npx, npy) ==
    [x \in 1..npx |-> [y \in 1..npy |-> result[(y - 1) * npx + x]]]

\* np.reshape(np.array(result), (npx, npy, ndots)), row-major
Reshape(result, npx, npy) ==
    [x \in 1..npx |-> [y \in 1..npy |-> result[(x - 1) * npy + y]]]

\* BaseDotSystem.findtransitions: a deterministic function of the grid
findtransitions(a) ==
    [honeycomb |-> [kind |-> "honeycomb", of |-> a],
     deloc |-> [kind |-> "deloc", of |-> a]]

AllCells(a) == (1..Len(a)) \X (1..Len(a[1]))

\* SimulateHoneycomb that allocates hcgs before it compares nparams to ngates
SimulateHoneycombAllocFirst(grid, multiprocess, have_mp, junk) ==
    /\ phase = "ready"
    /\ sweep = Idle
    /\ LET nparams == Len(grid)
           npointsx == Len(grid[1])
           npointsy == Len(grid[1][1])
           arg == [grid |-> grid, pool |-> (multiprocess /\ have_mp)]
       IN /\ hcgs' = [kind |-> "grid",
                      a |-> Empty(npointsx, npointsy, ndots, junk)]
          /\ written' = {}
          /\ UNCHANGED <<honeycomb, deloc>>
          /\ IF nparams # ngates
             THEN /\ ret' = Call("simulate_honeycomb", arg, [kind |-> "mismatch"])
                  /\ UNCHANGED sweep
             ELSE /\ ret' = Call("simulate_honeycomb", arg, [kind |-> "running"])
                  /\ sweep' = IF multiprocess /\ have_mp
                              THEN [kind |-> "pool", grid |-> grid,
                                    param_iter |-> ParamIter(grid),
                                    result |-> [k \in 1..(npointsx * npointsy) |-> Pending]]
                              ELSE [kind |-> "seq", grid |-> grid, i |-> 1, j |-> 1]
    /\ UNCHANGED <<phase, dims, model>>

\* the call obj.simulate_honeycomb(paramvalues2D, multiprocess=...) up to the
\* point where the cells are computed; have_mp is the module flag _have_mp.
\* The argument verbose only selects what is printed to the console, which
\* is not part of the state, so it is not an input here.
SimulateHoneycomb(grid, multiprocess, have_mp, junk) ==
    /\ phase = "ready"
    /\ sweep = Idle
    /\ LET nparams == Len(grid)
           npointsx == Len(grid[1])
           npointsy == Len(grid[1][1])
           arg == [grid |-> grid, pool |-> (multiprocess /\ have_mp)]
       IN IF nparams # ngates
          THEN /\ ret' = Call("simulate_honeycomb", arg, [kind |-> "mismatch"])
               /\ UNCHANGED <<results, sweep>>
          ELSE /\ hcgs' = [kind |-> "grid",
                           a |-> Empty(npointsx, npointsy, ndots, junk)]
               /\ written' = {}
               /\ ret' = Call("simulate_honeycomb", arg, [kind |-> "running"])
               /\ sweep' = IF multiprocess /\ have_mp
                           THEN [kind |-> "pool", grid |-> grid,
                                 param_iter |-> ParamIter(grid),
                                 result |-> [k \in 1..(npointsx * npointsy) |-> Pending]]
                           ELSE [kind |-> "seq", grid |-> grid, i |-> 1, j |-> 1]
               /\ UNCHANGED <<honeycomb, deloc>>
    /\ UNCHANGED <<phase, dims, model>>

\* the exception e leaves simulate_honeycomb
SweepRaises(e) ==
    /\ sweep' = Idle
    /\ ret' = Call("simulate_honeycomb", ret.arg, e)
    /\ UNCHANGED <<phase, dims, model, results>>

\* the tail of simulate_honeycomb once hcgs is complete
SweepReturns(h) ==
    /\ hcgs' = h
    /\ written' = AllCells(h.a)
    /\ honeycomb' = findtransitions(h.a).honeycomb
    /\ deloc' = findtransitions(h.a).deloc
    /\ sweep' = Idle
    /\ ret' = Call("simulate_honeycomb", ret.arg, Ok(None))
    /\ UNCHANGED <<phase, dims, model>>

\* one iteration of the inner loop of the sequential strategy
SeqCell ==
    /\ sweep.kind = "seq"
    /\ LET i == sweep.i
           j == sweep.j
           npointsx == Len(sweep.grid[1])
           npointsy == Len(sweep.grid[1][1])
           gs == calculate_ground_state(Self, Column(sweep.grid, i, j))
       IN IF gs.kind = "error" THEN SweepRaises(gs)
          ELSE LET h == [hcgs EXCEPT !.a[i][j] = gs.val] IN
               IF i = npointsx /\ j = npointsy THEN SweepReturns(h)
               ELSE /\ hcgs' = h
                    /\ written' = written \cup {<<i, j>>}
                    /\ sweep' = IF j < npointsy
                                THEN [sweep EXCEPT !.j = j + 1]
                                ELSE [sweep EXCEPT !.i = i + 1, !.j = 1]
                    /\ UNCHANGED <<phase, dims, model, honeycomb, deloc, ret>>

\* a pool worker finishes the task k of pool.map
WorkerCompletes(k) ==
    /\ sweep.kind = "pool"
    /\ sweep.result[k] = Pending
    /\ LET gs == calculate_ground_state(Self, sweep.param_iter[k]) IN
       IF gs.kind = "error" THEN SweepRaises(gs)
       ELSE /\ sweep' = [sweep EXCEPT !.result[k] = gs]
            /\ UNCHANGED <<phase, dims, model, results, ret>>

\* pool.map returns the results in task order; reshape and finish
PoolMapReturns ==
    /\ sweep.kind = "pool"
    /\ \A k \in 1..Len(sweep.result) : sweep.result[k].kind = "ok"
    /\ LET result == [k \in 1..Len(sweep.result) |-> sweep.result[k].val]
           npointsx == Len(sweep.grid[1])
           npointsy == Len(sweep.grid[1][1])
       IN SweepReturns([kind |-> "grid", a |-> Reshape(result, npointsx, npointsy)])

\* the ground-state computation of a cell fails for a reason outside the
\* model (resource exhaustion in the caller or in a worker)
CellFails ==
    /\ sweep.kind \in {"seq", "pool"}
    /\ SweepRaises(Raised("MemoryError"))

\* the parameter sets and gate voltages used around sweeps
SweepAssignInputs(nd, ng) ==
    LET good == IF nd = 3 THEN TripleDotValues ELSE DoubleDotValues IN
    {good, [good EXCEPT !.W = Append(good.W, good.W[1])]}

SweepGateInputs(ng) == {Column(Grid(ng, 2, 2), x, x) : x \in 1..2}

\* the state after TripleDot(maxelectrons=me) or DoubleDot(maxelectrons=me)
InitSweep ==
    /\ phase = "ready"
    /\ \E cls \in {"TripleDot", "DoubleDot"}, me \in 0..MaxElectrons :
          /\ IsObject((IF cls = "TripleDot" THEN TripleDot(me) ELSE DoubleDot(me)).val)
          /\ ret = Call(cls, me, Ok(None))
    /\ hcgs = NoAttr /\ honeycomb = NoAttr /\ deloc = NoAttr
    /\ written = {}
    /\ sweep = Idle

NextSweep ==
    \/ \E vardict \in SweepAssignInputs(ndots, ngates) : AssignParams(vardict)
    \/ \E gatevalues \in SweepGateInputs(ngates) : CalculateEnergies(gatevalues)
    \/ \E gatevalues \in SweepGateInputs(ngates) : CalculateGroundState(gatevalues)
    \/ \E grid \in GridInputs(ngates),
          multiprocess \in BOOLEAN, have_mp \in BOOLEAN, junk \in Uninit :
          SimulateHoneycomb(grid, multiprocess, have_mp, junk)
    \/ SeqCell
    \/ sweep.kind = "pool" /\ \E k \in 1..Len(sweep.result) : WorkerCompletes(k)
    \/ PoolMapReturns
    \/ CellFails

SpecSweep == InitSweep /\ [][NextSweep]_vars

\* ----------------------------------------------------- ncr as a function
InitNcr == Init

\* ncr(n, r) called on its own
NcrCall(n, r) ==
    /\ ret' = Call("ncr", <<n, r>>, ncr(n, r))
    /\ UNCHANGED <<phase, dims, model, results, sweep>>

NextNcr == \E n \in 0..MaxArg, r \in 0..MaxArg : NcrCall(n, r)

SpecNcr == InitNcr /\ [][NextNcr]_vars

\* ------------------------------------------------------------ properties
RECURSIVE Binom(_, _)
Binom(n, r) ==
    IF r = 0 THEN 1
    ELSE IF n = 0 THEN 0
    ELSE Binom(n - 1, r - 1) + Binom(n - 1, r)

RECURSIVE Pow(_, _)
Pow(b, e) == IF e = 0 THEN 1 ELSE b * Pow(b, e - 1)

RECURSIVE Tri(_)
Tri(n) == IF n = 0 THEN 0 ELSE n + Tri(n - 1)

LexLess(u, v) ==
    \E k \in 1..Len(u) : u[k] < v[k] /\ \A j \in 1..(k - 1) : u[j] = v[j]

\* the dot pairs a < b and the place of a pair in their lexicographic order
Pairs(nd) == {p \in (1..nd) \X (1..nd) : p[1] < p[2]}
PairRank(p, nd) == 1 + Cardinality({q \in Pairs(nd) : LexLess(q, p)})

\* all parameters and the gate-voltage vector have the documented shapes
ShapesOK(gatevalues) ==
    /\ Len(gatevalues) = ngates
    /\ Len(mu0) = ndots /\ Len(Eadd) = ndots
    /\ Len(W) = Cardinality(Pairs(ndots))
    /\ Len(alpha) = ndots /\ \A d \in 1..Len(alpha) : Len(alpha[d]) = ngates

\* C7: for all non-negative n and r, ncr(n, r) returns the binomial
\* coefficient C(n, r) and raises no error
C7_NcrExact ==
    ret.op = "ncr" =>
        /\ ret.out.kind = "ok"
        /\ ret.out.val = Binom(ret.arg[1], ret.arg[2])

C4_CoulombPairOrder ==
    phase = "ready" =>
        \A i \in 1..Len(basis) :
            /\ Len(coulomb_energy[i]) = Cardinality(Pairs(ndots))
            /\ \A p \in Pairs(ndots) :
                  coulomb_energy[i][PairRank(p, ndots)]
                      = basis[i][p[1]] * basis[i][p[2]]

\* a three-dot basis exists in which a state has different pair products
C4_Witness ==
    /\ phase = "ready" /\ ndots = 3
    /\ \E i \in 1..Len(basis) :
          /\ coulomb_energy[i][1] # coulomb_energy[i][2]
          /\ coulomb_energy[i][2] # coulomb_energy[i][3]

\* the energy of basis state i as the sum of its three documented terms
RefEnergy(i, V) ==
    LET n == basis[i]
        mu == [d \in 1..ndots |->
                  mu0[d] + SeqSum([g \in 1..ngates |-> alpha[d][g] * V[g]])]
    IN - SeqSum([d \in 1..ndots |-> mu[d] * n[d]])
       + SeqSum([k \in 1..Len(W) |-> coulomb_energy[i][k] * W[k]])
       + SeqSum([d \in 1..ndots |-> Tri(n[d]) * Eadd[d]])

\* C5: with well-shaped parameters calculate_energies(V) returns one energy
\* per basis state, energies[i] = -(mu0 + alpha.V).basis[i]
\* + coulomb_energy[i].W + add_basis[i].Eadd, and add_basis[i][d] is the
\* triangular number of the occupancy basis[i][d]
C5_EnergyFormula ==
    (ret.op = "calculate_energies" /\ ShapesOK(ret.arg)) =>
        /\ ret.out.kind = "ok"
        /\ Len(ret.out.val) = Len(basis)
        /\ \A i \in 1..Len(basis) :
              /\ ret.out.val[i] = RefEnergy(i, ret.arg)
              /\ \A d \in 1..ndots : add_basis[i][d] = Tri(basis[i][d])

\* energies were computed for non-zero parameters and voltages on a basis
\* with occupied states
C5_Witness ==
    /\ ret.op = "calculate_energies" /\ ShapesOK(ret.arg)
    /\ ret.out.kind = "ok"
    /\ maxelectrons >= 1
    /\ \E d \in 1..ndots : Eadd[d] # 0
    /\ \E k \in 1..Len(W) : W[k] # 0
    /\ \E g \in 1..ngates : ret.arg[g] # 0
    /\ \E i \in 1..Len(basis) : ret.out.val[i] # 0

\* C2: calculate_ground_state returns basis[k] for the smallest index k at
\* which calculate_energies is minimal
C2_GroundStateFirstMin ==
    (ret.op = "calculate_ground_state" /\ ret.out.kind = "ok") =>
        LET e == calculate_energies(Self, ret.arg).val IN
        \E k \in 1..Len(e) :
            /\ \A j \in 1..Len(e) : e[k] <= e[j]
            /\ \A j \in 1..(k - 1) : e[j] > e[k]
            /\ ret.out.val = basis[k]

\* a ground state was returned where two states share the minimum energy and
\* the parameters are not all zero
C2_Witness ==
    /\ ret.op = "calculate_ground_state" /\ ret.out.kind = "ok"
    /\ \E d \in 1..Len(mu0) : mu0[d] # 0
    /\ LET e == calculate_energies(Self, ret.arg).val IN
       \E k1, k2 \in 1..Len(e) :
           /\ k1 < k2 /\ e[k1] = e[k2]
           /\ \A j \in 1..Len(e) : e[k1] <= e[j]

\* C9: an energy query with a parameter or a gate-voltage vector of another
\* shape than documented fails with an error
C9_ShapeViolationFails ==
    (ret.op \in {"calculate_energies", "calculate_ground_state"}
        /\ ~ShapesOK(ret.arg)) => ret.out.kind = "error"

\* C1: a completed sweep, sequential or through the pool, leaves in hcgs an
\* npointsx x npointsy x ndots grid whose cell (x,y) is the ground state of
\* the gate voltages paramvalues2D[:, x, y]
C1_SweepCellsAreGroundStates ==
    (ret.op = "simulate_honeycomb" /\ ret.out.kind = "ok") =>
        LET grid == ret.arg.grid IN
        /\ hcgs.kind = "grid"
        /\ Len(hcgs.a) = Len(grid[1])
        /\ \A x \in 1..Len(grid[1]) :
              /\ Len(hcgs.a[x]) = Len(grid[1][1])
              /\ \A y \in 1..Len(grid[1][1]) :
                    /\ Len(hcgs.a[x][y]) = ndots
                    /\ hcgs.a[x][y] =
                          calculate_ground_state(Self, Column(grid, x, y)).val

\* a parallel sweep over a 2 x 2 grid has completed with four different
\* ground states
C1_Witness ==
    /\ ret.op = "simulate_honeycomb" /\ ret.out.kind = "ok"
    /\ ret.arg.pool
    /\ Len(hcgs.a) = 2 /\ Len(hcgs.a[1]) = 2
    /\ Cardinality({hcgs.a[x][y] : x \in 1..2, y \in 1..2}) = 4

\* C6: a call with a grid whose first dimension differs from ngates returns
\* at once: no sweep is started and hcgs, honeycomb and deloc keep their
\* values
C6_MismatchLeavesResults ==
    [][(ret'.op = "simulate_honeycomb" /\ Len(ret'.arg.grid) # ngates)
          => (/\ ret'.out.kind = "mismatch"
              /\ sweep' = Idle
              /\ UNCHANGED <<hcgs, honeycomb, deloc, written>>)]_vars

\* a mismatched call was made on an object that holds the results of an
\* earlier sweep
C6_Witness ==
    /\ ret.op = "simulate_honeycomb" /\ ret.out.kind = "mismatch"
    /\ hcgs.kind = "grid" /\ honeycomb.kind = "honeycomb"

\* C8: after a sweep that failed in a cell, hcgs does not hold a grid that is
\* computed only in part or not at all
C8_FailedSweepLeavesNoPartialGrid ==
    (ret.op = "simulate_honeycomb" /\ ret.out.kind = "error") =>
        (hcgs.kind = "grid" => written = AllCells(hcgs.a))

\* C10: once the basis exists, energy queries, ground-state queries and
\* sweeps leave basis, nbasis, Nt, add_basis, coulomb_energy, mu0, Eadd, W and
\* alpha unchanged, and a query repeated with the same gate voltages returns
\* the same result
C10_QueriesLeaveModelUnchanged ==
    [][(phase = "ready" /\ ret'.op # "setattr") =>
          /\ UNCHANGED model
          /\ (/\ ret.op \in {"calculate_energies", "calculate_ground_state"}
              /\ ret'.op = ret.op
              /\ ret'.arg = ret.arg) => ret'.out = ret.out]_vars

\* a ground-state query was answered on an object that has completed a sweep
C10_Witness ==
    /\ ret.op = "calculate_ground_state" /\ ret.out.kind = "ok"
    /\ hcgs.kind = "grid" /\ honeycomb.kind = "honeycomb"
    /\ written = AllCells(hcgs.a)

====
